---------------------------- MODULE Spec2Model ----------------------------
(***************************************************************************)
(* Model of the economic-news console bot: the dialog manager              *)
(* (src/src/dialog_manager.py), the news store it queries                  *)
(* (src/src/news_parser.py), the analyzer and its cache                    *)
(* (src/src/news_analyzer.py) and the console loop that drives the dialog  *)
(* (src/src/dialog_interface.py).                                          *)
(*                                                                         *)
(* Text.  Python strings are modelled by TLA+ strings and the string       *)
(* methods the code uses (lower, strip, split, isdigit, "in", int) are     *)
(* computed character by character.  The module is ASCII, so every         *)
(* Russian literal of the source is written letter for letter in Latin,    *)
(* one character per Cyrillic letter:                                      *)
(*   a b v g d e & z i j k l m n o p r s t u f h c q w x                   *)
(* for the letters a, be, ve, ge, de, ie, zhe, ze, i, short i, ka, el,     *)
(* em, en, o, pe, er, es, te, u, ef, ha, tse, che, sha, shcha, and         *)
(*   '  y  =  ~  @                                                         *)
(* for the soft sign, yeru, e, yu, ya ("novosti", "pomox'", "rez~me").     *)
(* A Latin letter of the source is written with an underscore before it    *)
(* ("_u_p_d_a_t_e", "_R_B_C"), which keeps the Latin "ria" apart from the  *)
(* Cyrillic name "RIA".  The mapping is injective, so substring, prefix    *)
(* and equality relations between the literals are those of the source.    *)
(***************************************************************************)
EXTENDS Integers, Sequences, FiniteSets, TLC

VARIABLES
    context_size,   \* DialogManager.context_size
    context,        \* DialogManager.context: sequence of entries, oldest first
    now,            \* the clock datetime.now() reads, one tick per entry
    appended,       \* history: every entry appended since the last clear
    news_cache,     \* NewsParser.news_cache: dict values in insertion order
    op,             \* the operation that produced this state
    message,        \* the message argument of that operation
    intent,         \* what _determine_intent returned, "none" if not consulted
    calls,          \* collaborator calls made by that operation, in order
    raisedIn,       \* the collaborator call that raised, "none" if none did
    outcome,        \* "returned" or "raised" (an exception left the operation)
    response,       \* the Response the operation returned
    limit,          \* the limit argument of a direct store / handler call
    result,         \* what a function called on its own returned
    fetches,        \* the site parsers that operation ran, and how each fetch went
    ui,             \* DialogInterface: "off", "running" or "stopped"
    displayed,      \* DialogInterface: the text of the last system message shown
    analysis_cache, \* NewsAnalyzer.analysis_cache: the (id, analysis) pairs
    analysed        \* history: the ids whose LLM reply arrived and was parsed

vars == <<context_size, context, now, appended, news_cache, op, message,
          intent, calls, raisedIn, outcome, response, limit, result,
          fetches, ui, displayed, analysis_cache, analysed>>

uiVars == <<ui, displayed>>

analyzerVars == <<analysis_cache, analysed>>

----------------------------------------------------------------------------
(* Python string primitives *)

LowerOf == [c \in {"A","B","C","D","E","F","G","H","I","J","K","L","M",
                   "N","O","P","Q","R","S","T","U","V","W","X","Y","Z"} |->
            CASE c = "A" -> "a" [] c = "B" -> "b" [] c = "C" -> "c"
              [] c = "D" -> "d" [] c = "E" -> "e" [] c = "F" -> "f"
              [] c = "G" -> "g" [] c = "H" -> "h" [] c = "I" -> "i"
              [] c = "J" -> "j" [] c = "K" -> "k" [] c = "L" -> "l"
              [] c = "M" -> "m" [] c = "N" -> "n" [] c = "O" -> "o"
              [] c = "P" -> "p" [] c = "Q" -> "q" [] c = "R" -> "r"
              [] c = "S" -> "s" [] c = "T" -> "t" [] c = "U" -> "u"
              [] c = "V" -> "v" [] c = "W" -> "w" [] c = "X" -> "x"
              [] c = "Y" -> "y" [] c = "Z" -> "z"]

CharAt(s, i) == SubSeq(s, i, i)

RECURSIVE Lower(_)
\* str.lower(), computed half by half
Lower(s) ==
    IF Len(s) = 0 THEN ""
    ELSE IF Len(s) = 1 THEN (IF s \in DOMAIN LowerOf THEN LowerOf[s] ELSE s)
    ELSE LET h == Len(s) \div 2
         IN  Lower(SubSeq(s, 1, h)) \o Lower(SubSeq(s, h + 1, Len(s)))

IsSpace(c) == c \in {" ", "\t", "\n"}

\* str.strip(): from the first to the last non-blank character
Strip(s) ==
    LET inked == {i \in 1..Len(s) : ~IsSpace(CharAt(s, i))}
    IN  IF inked = {} THEN ""
        ELSE SubSeq(s, CHOOSE i \in inked : \A j \in inked : i <= j,
                       CHOOSE i \in inked : \A j \in inked : i >= j)

\* sub in s
Contains(sub, s) ==
    \E i \in 1..(Len(s) - Len(sub) + 1) : SubSeq(s, i, i + Len(sub) - 1) = sub

\* position of the first occurrence of sub in s (sub occurs in s)
Find(sub, s) ==
    CHOOSE i \in 1..(Len(s) - Len(sub) + 1) :
        /\ SubSeq(s, i, i + Len(sub) - 1) = sub
        /\ \A j \in 1..(i - 1) : SubSeq(s, j, j + Len(sub) - 1) # sub

\* str.split() with no separator: the maximal runs of non-blank characters
Split(s) ==
    LET Inked(i) == i >= 1 /\ i <= Len(s) /\ ~IsSpace(CharAt(s, i))
        starts == {i \in 1..Len(s) : Inked(i) /\ ~Inked(i - 1)}
        EndOf(i) == CHOOSE j \in i..Len(s) :
                        /\ ~Inked(j + 1)
                        /\ \A k \in i..j : Inked(k)
        Nth(k) == CHOOSE i \in starts : Cardinality({j \in starts : j < i}) = k - 1
    IN  [k \in 1..Cardinality(starts) |-> SubSeq(s, Nth(k), EndOf(Nth(k)))]

DigitChars == <<"0", "1", "2", "3", "4", "5", "6", "7", "8", "9">>

IsDigitChar(c) == \E d \in 1..10 : DigitChars[d] = c

\* str.isdigit()
IsDigit(s) == s # "" /\ \A i \in 1..Len(s) : IsDigitChar(CharAt(s, i))

DigitValue(c) == (CHOOSE d \in 1..10 : DigitChars[d] = c) - 1

RECURSIVE DecimalValue(_, _)
DecimalValue(s, acc) ==
    IF s = "" THEN acc
    ELSE DecimalValue(Tail(s), 10 * acc + DigitValue(CharAt(s, 1)))

\* int(s) succeeds: an optional sign followed by decimal digits
IsInt(s) ==
    \/ IsDigit(s)
    \/ s # "" /\ CharAt(s, 1) \in {"-", "+"} /\ IsDigit(Tail(s))

\* int(s) where it succeeds
ParseInt(s) ==
    IF IsDigit(s) THEN DecimalValue(s, 0)
    ELSE IF CharAt(s, 1) = "-" THEN 0 - DecimalValue(Tail(s), 0)
    ELSE DecimalValue(Tail(s), 0)

RECURSIVE NatToStr(_)
NatToStr(n) ==
    IF n < 10 THEN DigitChars[n + 1]
    ELSE NatToStr(n \div 10) \o DigitChars[(n % 10) + 1]

\* str(n) / f"{n}"
IntToStr(n) == IF n < 0 THEN "-" \o NatToStr(0 - n) ELSE NatToStr(n)

----------------------------------------------------------------------------
(* DialogManager._determine_intent *)

HelpWords     == <<"pomox'", "pomogi", "qto ty umeew'", "komandy">>
GreetingWords == <<"privet", "zdravstvuj", "dobryj den'", "zdravstvujte">>
SearchWords   == <<"najdi", "poisk", "iskat'">>
AnalyzeWords  == <<"analiz", "proanaliziruj", "analizirovat'">>
SummaryWords  == <<"svodka", "rez~me", "itogi", "summa">>
NewsWords     == <<"novosti", "poslednie">>

\* any(word in message for word in words)
AnyIn(words, s) == \E k \in 1..Len(words) : Contains(words[k], s)

\* any(word.isdigit() for word in message.split())
AnyDigitToken(s) == LET parts == Split(s) IN \E k \in 1..Len(parts) : IsDigit(parts[k])

\* the context-fallback test of _determine_intent (lines 185-188)
PrevMentionsNews(ctx) ==
    /\ Len(ctx) > 1
    /\ Contains("novost", Lower(ctx[Len(ctx) - 1].content))

\* no default intent: a context that does not mention news yields "unknown"
fallback_intent_without_default(ctx) ==
    IF PrevMentionsNews(ctx) THEN "get_latest_news" ELSE "unknown"

\* the end of _determine_intent (lines 184-191): the fallback by context,
\* then the default intent
fallback_intent(ctx) ==
    IF PrevMentionsNews(ctx) THEN "get_latest_news" ELSE "get_latest_news"

\* determine_intent with the general news test moved ahead of the greeting test
determine_intent_news_first(msg, ctx) ==
    LET m == Strip(Lower(msg))
    IN  IF Contains("vse novosti", m) THEN "get_all_news"
        ELSE IF AnyIn(HelpWords, m) THEN "help"
        ELSE IF AnyIn(NewsWords, m) /\ ~AnyDigitToken(m) THEN "get_latest_news"
        ELSE IF AnyIn(GreetingWords, m) THEN "greeting"
        ELSE IF AnyIn(SearchWords, m) THEN "search_news"
        ELSE IF AnyIn(AnalyzeWords, m) THEN "analyze_news"
        ELSE IF AnyIn(SummaryWords, m) THEN "get_summary"
        ELSE IF AnyIn(NewsWords, m) THEN "get_n_news"
        ELSE "get_latest_news"

determine_intent(msg, ctx) ==
    LET m == Strip(Lower(msg))
    IN  IF Contains("vse novosti", m) THEN "get_all_news"
        ELSE IF AnyIn(HelpWords, m) THEN "help"
        ELSE IF AnyIn(GreetingWords, m) THEN "greeting"
        ELSE IF AnyIn(SearchWords, m) THEN "search_news"
        ELSE IF AnyIn(AnalyzeWords, m) THEN "analyze_news"
        ELSE IF AnyIn(SummaryWords, m) THEN "get_summary"
        ELSE IF (Contains("novosti", m) \/ Contains("poslednie", m)) /\ AnyDigitToken(m)
             THEN "get_n_news"
        ELSE IF AnyIn(NewsWords, m) THEN "get_latest_news"
        ELSE fallback_intent(ctx)

----------------------------------------------------------------------------
(* Python values.  The code tests the dynamic type of a limit              *)
(* (isinstance) and the truth value of limits and lists, so a value that   *)
(* may be None, an int or a str carries its Python type.                   *)

PyNone   == [py |-> "None"]
PyInt(n) == [py |-> "int", v |-> n]
PyStr(s) == [py |-> "str", v |-> s]
PyList(s) == [py |-> "list", v |-> s]
PyDict(d) == [py |-> "dict", v |-> d]

Min(a, b) == IF a < b THEN a ELSE b
Max(a, b) == IF a > b THEN a ELSE b

\* seq[:k] for an int k, negative k counting from the end
SliceTo(seq, k) ==
    IF k >= 0 THEN SubSeq(seq, 1, Min(k, Len(seq)))
    ELSE SubSeq(seq, 1, Max(0, Len(seq) + k))

\* seq[-k:] for an int k (seq[-0:] is seq[0:], the whole list)
SliceLast(seq, k) ==
    IF k > 0 THEN SubSeq(seq, Max(1, Len(seq) - k + 1), Len(seq))
    ELSE IF k = 0 THEN seq
    ELSE SubSeq(seq, Min(Len(seq), 0 - k) + 1, Len(seq))

----------------------------------------------------------------------------
(* NewsParser: get_latest_news, search_news *)

\* code points of the characters dates are written with
Ord == [c \in {" ", ",", ".", ":", "0", "1", "2", "3", "4", "5", "6", "7", "8", "9"} |->
        CASE c = " " -> 32 [] c = "," -> 44 [] c = "." -> 46 [] c = ":" -> 58
          [] OTHER -> 48 + DigitValue(c)]

RECURSIVE StrLess(_, _)
\* a < b on Python strings: lexicographic by code point
StrLess(a, b) ==
    IF b = "" THEN FALSE
    ELSE IF a = "" THEN TRUE
    ELSE IF CharAt(a, 1) = CharAt(b, 1) THEN StrLess(Tail(a), Tail(b))
    ELSE Ord[CharAt(a, 1)] < Ord[CharAt(b, 1)]

\* x is placed behind every element whose date is not smaller than its own
InsertByDate(sorted, x) ==
    LET p == Cardinality({i \in 1..Len(sorted) : ~StrLess(sorted[i].date, x.date)})
    IN  SubSeq(sorted, 1, p) \o <<x>> \o SubSeq(sorted, p + 1, Len(sorted))

RECURSIVE SortedByDateDesc(_)
\* sorted(values, key=date, reverse=True): stable, equal dates keep their order
SortedByDateDesc(items) ==
    IF items = <<>> THEN <<>>
    ELSE InsertByDate(SortedByDateDesc(SubSeq(items, 1, Len(items) - 1)),
                      items[Len(items)])

\* bool(limit) for a limit that is None or an int
Truthy(lim) == lim.py = "int" /\ lim.v # 0

\* get_latest_news that cuts the cache without sorting it
get_latest_news_unsorted(cache, lim) ==
    LET l == IF lim.py \in {"int", "None"} THEN lim ELSE PyInt(5)
    IN  IF Truthy(l) THEN SliceTo(cache, l.v) ELSE cache

get_latest_news(cache, lim) ==
    LET l == IF lim.py \in {"int", "None"} THEN lim ELSE PyInt(5)
        sorted_news == SortedByDateDesc(cache)
    IN  IF Truthy(l) THEN SliceTo(sorted_news, l.v) ELSE sorted_news

search_news(cache, query, lim) ==
    LET q == Lower(query)
        Matches(news) == Contains(q, Lower(news.title)) \/ Contains(q, Lower(news.content))
        found == SelectSeq(cache, Matches)
    IN  \* the loop stops as soon as len(results) >= limit, tested after an append
        IF found = <<>> THEN <<>>
        ELSE SubSeq(found, 1, Min(Len(found), Max(lim, 1)))

----------------------------------------------------------------------------
(* DialogManager: search query extraction and the response handlers.       *)
(* A handler evaluates to what it did: the Response it returned, the       *)
(* collaborator calls it made, the call that raised (if one did) and       *)
(* whether the exception left the handler.  fault names the collaborator   *)
(* whose calls raise while this message is handled.                        *)

Faults == {"none", "store", "analyzer"}

\* str(e) of the exception a failing collaborator raises
FaultReason == "connection error"

NoResponse == [none |-> TRUE]

Call(fn, arg) == [fn |-> fn, arg |-> arg]

Returned(resp, cs) == [resp |-> resp, calls |-> cs, raisedIn |-> "none", raised |-> FALSE]
Caught(resp, cs, fn) == [resp |-> resp, calls |-> cs, raisedIn |-> fn, raised |-> FALSE]
Raised(cs, fn) == [resp |-> NoResponse, calls |-> cs, raisedIn |-> fn, raised |-> TRUE]

SearchPrefixes == <<"najdi", "poisk", "iskat'", "najti">>

\* takes the prefix that comes first in the message
extract_search_query_by_position(msg) ==
    LET m == Lower(msg)
        present == {k \in 1..Len(SearchPrefixes) : Contains(SearchPrefixes[k], m)}
    IN  IF present = {} THEN m
        ELSE LET prefix == SearchPrefixes[CHOOSE k \in present : \A j \in present :
                                Find(SearchPrefixes[k], m) <= Find(SearchPrefixes[j], m)]
             IN  Strip(SubSeq(m, Find(prefix, m) + Len(prefix), Len(m)))

\* _extract_search_query: what follows the first listed prefix found in the
\* lower-cased message, trimmed; the lower-cased message when none is found
extract_search_query(msg) ==
    LET m == Lower(msg)
        present == {k \in 1..Len(SearchPrefixes) : Contains(SearchPrefixes[k], m)}
    IN  IF present = {} THEN m
        ELSE LET prefix == SearchPrefixes[CHOOSE k \in present : \A j \in present : k <= j]
             IN  Strip(SubSeq(m, Find(prefix, m) + Len(prefix), Len(m)))

RECURSIVE NumberedList(_, _)
\* the numbered title / source / date entries of a listing, items i..n
NumberedList(items, i) ==
    IF i > Len(items) THEN ""
    ELSE IntToStr(i) \o ". " \o items[i].title \o "\n"
         \o "   Istoqnik: " \o items[i].source \o ", Data: " \o items[i].date \o "\n\n"
         \o NumberedList(items, i + 1)

NoNewsText ==
    "Net dostupnyh novostej. Poprobujte obnovit' novosti komandoj 'obnovit' novosti'."

\* returns the listing with its last item missing from the data
handle_latest_news_drops_last(cache, lim, fault) ==
    LET l == IF lim.py = "str"
             THEN (IF IsDigit(lim.v) THEN PyInt(ParseInt(lim.v))
                   ELSE IF Lower(lim.v) = "none" THEN PyNone ELSE PyInt(5))
             ELSE lim
        cs == <<Call("get_latest_news", l)>>
        latest_news == get_latest_news(cache, l)
    IN  IF fault = "store"
        THEN Caught([text |-> "Proizowla owibka pri poluqenii novostej",
                     data |-> PyNone, type |-> "error"], cs, "get_latest_news")
        ELSE IF latest_news = <<>>
        THEN Returned([text |-> NoNewsText, data |-> PyNone, type |-> "latest_news"], cs)
        ELSE Returned([text |-> "Vot poslednie " \o IntToStr(Len(latest_news))
                                \o " novostej:\n\n" \o NumberedList(latest_news, 1)
                                \o "Dl@ analiza vvedite 'analiz novostej'",
                       data |-> PyList(SubSeq(latest_news, 1, Len(latest_news) - 1)), type |-> "latest_news"], cs)

\* _handle_latest_news: the limit normalised, the store queried, the items
\* listed; a store fault is caught and answered with the error Response
handle_latest_news(cache, lim, fault) ==
    LET l == IF lim.py = "str"
             THEN (IF IsDigit(lim.v) THEN PyInt(ParseInt(lim.v))
                   ELSE IF Lower(lim.v) = "none" THEN PyNone ELSE PyInt(5))
             ELSE lim
        cs == <<Call("get_latest_news", l)>>
        latest_news == get_latest_news(cache, l)
    IN  IF fault = "store"
        THEN Caught([text |-> "Proizowla owibka pri poluqenii novostej",
                     data |-> PyNone, type |-> "error"], cs, "get_latest_news")
        ELSE IF latest_news = <<>>
        THEN Returned([text |-> NoNewsText, data |-> PyNone, type |-> "latest_news"], cs)
        ELSE Returned([text |-> "Vot poslednie " \o IntToStr(Len(latest_news))
                                \o " novostej:\n\n" \o NumberedList(latest_news, 1)
                                \o "Dl@ analiza vvedite 'analiz novostej'",
                       data |-> PyList(latest_news), type |-> "latest_news"], cs)

\* leaves the query out of the "nothing found" text
handle_search_news_without_query(cache, query, lim, fault) ==
    LET cs == <<Call("search_news", PyStr(query))>>
        search_results == search_news(cache, query, lim)
    IN  IF fault = "store" THEN Raised(cs, "search_news")
        ELSE IF search_results = <<>>
        THEN Returned([text |-> "K so&aleni~, @ ne nawel novostej po zaprosu"
                                \o ". Poprobujte izmenit' zapros ili poluqit' poslednie novosti komandoj 'poslednie novosti'.",
                       data |-> PyNone, type |-> "search_news"], cs)
        ELSE Returned([text |-> "Rezul'taty poiska po zaprosu '" \o query \o "':\n\n"
                                \o NumberedList(search_results, 1)
                                \o "Dl@ analiza =tih novostej vvedite 'proanalizirovat' novosti'.",
                       data |-> PyList(search_results), type |-> "search_news"], cs)

\* _handle_search_news: the store searched, the results listed or the
\* "nothing found" text; a store fault leaves the handler
handle_search_news(cache, query, lim, fault) ==
    LET cs == <<Call("search_news", PyStr(query))>>
        search_results == search_news(cache, query, lim)
    IN  IF fault = "store" THEN Raised(cs, "search_news")
        ELSE IF search_results = <<>>
        THEN Returned([text |-> "K so&aleni~, @ ne nawel novostej po zaprosu '" \o query
                                \o "'. Poprobujte izmenit' zapros ili poluqit' poslednie novosti komandoj 'poslednie novosti'.",
                       data |-> PyNone, type |-> "search_news"], cs)
        ELSE Returned([text |-> "Rezul'taty poiska po zaprosu '" \o query \o "':\n\n"
                                \o NumberedList(search_results, 1)
                                \o "Dl@ analiza =tih novostej vvedite 'proanalizirovat' novosti'.",
                       data |-> PyList(search_results), type |-> "search_news"], cs)

RECURSIVE Join(_, _)
\* sep.join(parts)
Join(sep, parts) ==
    IF parts = <<>> THEN ""
    ELSE IF Len(parts) = 1 THEN parts[1]
    ELSE parts[1] \o sep \o Join(sep, Tail(parts))

\* the localized sentiment, "Nejtral'na@" for anything unlisted
SentimentText(sentiment, withMixed) ==
    CASE sentiment = "positive" -> "Pozitivna@"
      [] sentiment = "negative" -> "Negativna@"
      [] sentiment = "neutral"  -> "Nejtral'na@"
      [] sentiment = "mixed" /\ withMixed -> "Smewanna@"
      [] OTHER -> "Nejtral'na@"

RECURSIVE AnalysisList(_, _)
AnalysisList(results, i) ==
    IF i > Len(results) THEN ""
    ELSE LET news == results[i].news
             analysis == results[i].analysis
         IN  IntToStr(i) \o ". " \o news.title \o "\n"
             \o "   Tema: " \o analysis.topic \o "\n"
             \o "   Tonal'nost': " \o SentimentText(analysis.sentiment, FALSE) \o "\n"
             \o "   Kl~qevye momenty: " \o Join(", ", analysis.key_points) \o "\n"
             \o "   Potencial'noe vli@nie: " \o analysis.impact \o "\n\n"
             \o AnalysisList(results, i + 1)

handle_analyze_news(cache, lim, fault, llm) ==
    LET latest_news == get_latest_news(cache, PyInt(lim))
        first == <<Call("get_latest_news", PyInt(lim))>>
        analysis_results ==
            [i \in 1..Len(latest_news) |-> [news |-> latest_news[i], analysis |-> llm.analysis]]
        all == first \o [i \in 1..Len(latest_news) |->
                            Call("analyze_news", PyStr(latest_news[i].id))]
    IN  IF fault = "store" THEN Raised(first, "get_latest_news")
        ELSE IF latest_news = <<>>
        THEN Returned([text |-> "K so&aleni~, u men@ net novostej dl@ analiza. Poprobujte obnovit' novosti komandoj 'obnovit' novosti'.",
                       data |-> PyNone, type |-> "analyze_news"], first)
        ELSE IF fault = "analyzer" THEN Raised(SubSeq(all, 1, 2), "analyze_news")
        ELSE Returned([text |-> "Rezul'taty analiza poslednih novostej:\n\n"
                                \o AnalysisList(analysis_results, 1)
                                \o "Dl@ poluqeni@ obxej svodki vvedite 'svodka po novost@m'.",
                       data |-> PyList(analysis_results), type |-> "analyze_news"], all)

RECURSIVE Bullets(_)
\* "- x\n" for every x the loop is given
Bullets(xs) == IF xs = <<>> THEN "" ELSE "- " \o xs[1] \o "\n" \o Bullets(Tail(xs))

\* what "for x in v" yields: the elements of a list, the characters of a str
Iterate(v) == IF v.py = "str" THEN [i \in 1..Len(v.v) |-> CharAt(v.v, i)] ELSE v.v

handle_get_summary(cache, lim, fault, llm) ==
    LET latest_news == get_latest_news(cache, PyInt(lim))
        first == <<Call("get_latest_news", PyInt(lim))>>
        all == first \o <<Call("summarize_news", PyInt(Len(latest_news)))>>
        summary == llm.summary
    IN  IF fault = "store" THEN Raised(first, "get_latest_news")
        ELSE IF latest_news = <<>>
        THEN Returned([text |-> "K so&aleni~, u men@ net novostej dl@ sozdani@ svodki. Poprobujte obnovit' novosti komandoj 'obnovit' novosti'.",
                       data |-> PyNone, type |-> "get_summary"], first)
        ELSE IF fault = "analyzer" THEN Raised(all, "summarize_news")
        ELSE Returned([text |-> "Svodka po poslednim =konomiqeskim novost@m:\n\n"
                                \o "Osnovnye trendy i temy:\n" \o Bullets(summary.trends)
                                \o "\nObxa@ tonal'nost': "
                                \o SentimentText(summary.overall_sentiment, TRUE) \o "\n\n"
                                \o "Kl~qevye sobyti@ i ih vli@nie:\n" \o Bullets(summary.key_events)
                                \o "\nRekomendacii:\n" \o Bullets(Iterate(summary.recommendations)),
                       data |-> PyDict(summary), type |-> "get_summary"], all)

HelpText ==
    "@ - dialogova@ sistema dl@ analiza =konomiqeskih novostej. Vot qto @ ume~:\n\n        1. Pokazyvat' poslednie novosti:\n           - 'novosti' - 5 poslednih novostej\n           - 'vse novosti' - polnyj spisok\n        2. Iskat' novosti po kl~qevym slovam: 'najdi [zapros]'\n        3. Analizirovat' novosti: 'analiz novostej'\n        4. Sozdavat' svodku: 'svodka'\n        5. Obnovl@t' novosti: 'obnovit' novosti'"

handle_help == Returned([text |-> HelpText, data |-> PyNone, type |-> "help"], <<>>)

GreetingText ==
    "Zdravstvujte! @ - dialogova@ sistema dl@ analiza =konomiqeskih novostej.\n\n@ mogu pokazyvat' poslednie novosti, iskat' novosti po kl~qevym slovam, analizirovat' ih i sozdavat' svodki.\n\nQem @ mogu vam pomoq' segodn@? Napiwite 'pomox'', qtoby uznat' o moih vozmo&nost@h."

handle_greeting == Returned([text |-> GreetingText, data |-> PyNone, type |-> "greeting"], <<>>)

UnknownText ==
    "Izvinite, @ ne sovsem pon@l vaw zapros. Vot qto @ ume~:\n\n1. Pokazyvat' poslednie novosti - prosto napiwite 'novosti' ili 'poslednie novosti'\n2. Iskat' novosti po kl~qevym slovam - napiwite 'najdi [zapros]' ili 'poisk [zapros]'\n3. Analizirovat' novosti - napiwite 'analiz novostej' ili 'proanaliziruj novosti'\n4. Sozdavat' svodku po novost@m - napiwite 'svodka' ili 'rez~me novostej'\n\nPoprobujte sformulirovat' zapros inaqe ili napiwite 'pomox'' dl@ poluqeni@ spravki."

handle_unknown == Returned([text |-> UnknownText, data |-> PyNone, type |-> "unknown"], <<>>)

----------------------------------------------------------------------------
(* DialogManager: context and process_message *)

Entry(msg, role, ts) == [role |-> role, content |-> msg, timestamp |-> ts]

\* trims to the oldest entries instead of the newest
add_to_context_keeps_oldest(ctx, size, msg, role, ts) ==
    LET c == Append(ctx, Entry(msg, role, ts))
    IN  IF Len(c) > size THEN SliceTo(c, size) ELSE c

\* add_to_context: the entry appended, the list cut to its last size entries
\* when it is longer than size
add_to_context(ctx, size, msg, role, ts) ==
    LET c == Append(ctx, Entry(msg, role, ts))
    IN  IF Len(c) > size THEN SliceLast(c, size) ELSE c

\* drops the oldest entry only
clear_context_drops_oldest(ctx) == IF ctx = <<>> THEN <<>> ELSE Tail(ctx)

\* clear_context: self.context = []
clear_context(ctx) == <<>>

UpdateCommands == <<"obnovit' novosti", "obnovit'", "_u_p_d_a_t_e">>

\* message.lower() in [...]
IsUpdateCommand(msg) == \E k \in 1..Len(UpdateCommands) : UpdateCommands[k] = Lower(msg)

RECURSIVE DictOf(_)
\* {news["id"]: news for news in all_news}: a key keeps the place of its
\* first insertion and the value of its last
DictOf(all_news) ==
    IF all_news = <<>> THEN <<>>
    ELSE LET x == all_news[Len(all_news)]
             d == DictOf(SubSeq(all_news, 1, Len(all_news) - 1))
         IN  IF \E i \in 1..Len(d) : d[i].id = x.id
             THEN [i \in 1..Len(d) |-> IF d[i].id = x.id THEN x ELSE d[i]]
             ELSE Append(d, x)

\* adds the fetched items to what the cache held
cache_write_keeps_old(cache, all_news) == DictOf(cache \o all_news)

\* the cache write of update_news (line 72): the cache becomes the dict of
\* the fetched items, whatever it held
cache_write(cache, all_news) == DictOf(all_news)

\* which site parser update_news picks for a source, by its name
parser_of(name) ==
    IF Contains("_r_b_c", Lower(name)) THEN "_parse_rbc"
    ELSE IF Contains("_r_i_a", Lower(name)) THEN "_parse_ria"
    ELSE "unsupported"

\* _parse_rbc / _parse_ria: the items of the page, nothing when the request
\* or the parsing raises (the parser catches it and returns its empty list)
parse_site(parser, web) ==
    LET page == IF parser = "_parse_rbc" THEN web.rbc ELSE web.ria
    IN  IF page.py = "None" THEN <<>> ELSE page.v

RECURSIVE update_news(_, _)
\* NewsParser.update_news over the configured sources: the items of every
\* supported source in turn, and the parsers run with the fate of each fetch
update_news(sources, web) ==
    IF sources = <<>> THEN [all_news |-> <<>>, fetches |-> <<>>]
    ELSE LET rest == update_news(Tail(sources), web)
             parser == parser_of(sources[1].name)
         IN  IF parser = "unsupported" THEN rest
             ELSE [all_news |-> parse_site(parser, web) \o rest.all_news,
                   fetches |-> <<[parser |-> parser, source |-> sources[1].name,
                                  ok |-> (IF parser = "_parse_rbc" THEN web.rbc ELSE web.ria).py # "None",
                                  items |-> parse_site(parser, web)]>>
                               \o rest.fetches]

\* the update branch of process_message (lines 82-88)
handle_update(fault) ==
    IF fault = "store"
    THEN Caught([text |-> "Proizowla owibka pri obnovlenii novostej: " \o FaultReason],
                <<Call("update_news", PyNone)>>, "update_news")
    ELSE Returned([text |-> "Novosti uspewno obnovleny!"], <<Call("update_news", PyNone)>>)

\* the get_latest_news branch of process_message (lines 94-124): the
\* guarded block first, then the second block, whose Response is the one kept
latest_news_branch(msg, cache, fault) ==
    LET m == Lower(msg)
        parts == Split(m)
        words == Split(msg)
        block1 ==
            IF Contains("vse novosti", m) THEN handle_latest_news(cache, PyNone, fault)
            ELSE IF Contains("novosti", m) /\ Len(parts) > 1 /\ IsDigit(parts[2])
                 THEN handle_latest_news(cache, PyInt(ParseInt(parts[2])), fault)
            ELSE handle_latest_news(cache, PyInt(5), fault)
        block2 ==
            IF Contains("vse novosti", m) THEN handle_latest_news(cache, PyNone, fault)
            ELSE IF Contains("novosti", m) /\ IsInt(words[Len(words)])
                 THEN handle_latest_news(cache, PyInt(ParseInt(words[Len(words)])), fault)
            ELSE handle_latest_news(cache, PyInt(5), fault)
    IN  [block2 EXCEPT !.calls = block1.calls \o block2.calls]

\* the dispatch of process_message on the intent (lines 94-137)
dispatch(name, msg, cache, fault, llm) ==
    CASE name = "get_latest_news" -> latest_news_branch(msg, cache, fault)
      [] name = "search_news" ->
            handle_search_news(cache, extract_search_query(msg), 5, fault)
      [] name = "analyze_news" -> handle_analyze_news(cache, 3, fault, llm)
      [] name = "get_summary" -> handle_get_summary(cache, 5, fault, llm)
      [] name = "help" -> handle_help
      [] name = "greeting" -> handle_greeting
      [] OTHER -> handle_unknown

\* process_message after the user's entry is in the context ctx
process_message(msg, ctx, cache, fault, llm) ==
    IF IsUpdateCommand(msg)
    THEN [intent |-> "none", handled |-> handle_update(fault)]
    ELSE LET name == determine_intent(msg, ctx)
         IN  [intent |-> name, handled |-> dispatch(name, msg, cache, fault, llm)]

----------------------------------------------------------------------------
(* Bounds and the inputs the operations are exercised with *)

MaxContextSize == 2     \* context_size ranges over 0..MaxContextSize
MaxClock == 3           \* entries appended in one run
MaxNews == 3            \* cached items in the store specification
MaxLimit == 4           \* limits range over -MaxLimit..MaxLimit
MaxWords == 2           \* words of a message given to the classifier

NewsItem(id, title, source, date) ==
    [id |-> id, title |-> title, source |-> source, date |-> date, content |-> ""]

\* a cache as update_news leaves it: two items, the older one first
SampleNews == << NewsItem("RIA_2", "CB sohranil stavku", "RIA", "9:45"),
                 NewsItem("_R_B_C_1", "Kurs rubl@ vyros", "_R_B_C", "10:15") >>

\* the replies of the analyzer: a parsed LLM reply, and the stubs it
\* returns when the LLM call fails (news_analyzer.py lines 125-130, 219-224)
LLMReplies ==
    { [analysis |-> [topic |-> "infl@ci@", sentiment |-> "positive",
                     key_points |-> <<"rost cen", "kl~qeva@ stavka">>,
                     impact |-> "umerennoe"],
       summary |-> [trends |-> <<"rost cen">>, overall_sentiment |-> "mixed",
                    key_events |-> <<"zasedanie CB">>,
                    recommendations |-> PyList(<<"&dat'">>)]],
      [analysis |-> [topic |-> "ne udalos' opredelit'", sentiment |-> "neutral",
                     key_points |-> <<"Ne udalos' proanalizirovat' novost'">>,
                     impact |-> "Ne udalos' opredelit' vli@nie"],
       summary |-> [trends |-> <<"Ne udalos' opredelit' trendy">>,
                    overall_sentiment |-> "neutral",
                    key_events |-> <<"Ne udalos' opredelit' kl~qevye sobyti@">>,
                    recommendations |-> PyStr("Ne udalos'")]] }

\* messages given to process_message
Messages ==
    { "novosti", "poslednie", "vse novosti", "novosti 2", "novosti -1",
      "privet", "pomox'", "najdi kurs", "analiz novostej", "svodka", "kak dela",
      "obnovit' novosti", "Obnovit' Novosti", "obnovit' ", "_u_p_d_a_t_e",
      "po&alujsta obnovit' novosti" }

\* entries given to add_to_context directly
DirectEntries == { [content |-> "kak dela", role |-> "user"],
                   [content |-> NoNewsText, role |-> "system"] }

\* what the cache file holds when the store is constructed
Fetches == {<<>>, SampleNews}

\* the configured sources (the default configuration)
Sources == << [name |-> "_R_B_C"], [name |-> "RIA"] >>

\* what the two sites answer to a request: a page of items, or a failure
\* (network error, unparsable page)
SitesUp ==
    [rbc |-> PyList(<<NewsItem("_R_B_C_3", "Infl@ci@ zamedlilas'", "_R_B_C", "11:30"),
                      NewsItem("_R_B_C_5", "Neft' podoro&ala", "_R_B_C", "11:35"),
                      NewsItem("_R_B_C_3", "Infl@ci@ uskorilas'", "_R_B_C", "11:50")>>),
     ria |-> PyList(<<NewsItem("RIA_4", "Kurs rubl@ vyros", "RIA", "11:40")>>)]

SitesDown == [rbc |-> PyNone, ria |-> PyNone]

Webs == {SitesUp, SitesDown}

ParsedReply == CHOOSE l \in LLMReplies : l.summary.overall_sentiment = "mixed"

\* what the collaborators do while one message is handled: whose calls
\* raise, what the analyzer replies, what the sites answer to a refresh
Environments ==
    { [fault |-> "none", llm |-> l, web |-> SitesUp] : l \in LLMReplies }
    \cup { [fault |-> "none", llm |-> ParsedReply, web |-> SitesDown] }
    \cup { [fault |-> flt, llm |-> ParsedReply, web |-> SitesDown] :
              flt \in {"store", "analyzer"} }

\* words of the messages given to the classifier: every keyword of every
\* rule, a number, a word no rule knows, a capitalised keyword
Vocabulary ==
    { "vse novosti", "pomox'", "pomogi", "qto ty umeew'", "komandy",
      "privet", "zdravstvuj", "dobryj den'", "zdravstvujte",
      "najdi", "poisk", "iskat'", "analiz", "proanaliziruj", "analizirovat'",
      "svodka", "rez~me", "itogi", "summa", "novosti", "poslednie",
      "10", "kurs", "Privet," }

RECURSIVE Phrases(_)
\* the messages of 1..n words
Phrases(n) ==
    IF n = 1 THEN Vocabulary
    ELSE Phrases(n - 1) \cup {p \o " " \o w : p \in Phrases(n - 1), w \in Vocabulary}

IntentMessages == Phrases(MaxWords)

\* words of the messages given to _extract_search_query: the four prefixes,
\* one of them capitalised, and two words that are no prefix
QueryWords == {"najdi", "Poisk", "iskat'", "najti", "kurs", " infl@ci@ "}

RECURSIVE QueryPhrases(_)
QueryPhrases(n) ==
    IF n = 1 THEN QueryWords
    ELSE QueryPhrases(n - 1) \cup {p \o " " \o w : p \in QueryPhrases(n - 1), w \in QueryWords}

QueryMessages == QueryPhrases(MaxWords + 1)

\* contexts the classifier is called in: empty, and the user's entry
\* preceded by an entry that mentions news or does not
IntentContexts ==
    { <<>>,
      <<Entry(NoNewsText, "system", 0), Entry("kurs", "user", 1)>>,
      <<Entry(GreetingText, "system", 0) , Entry("kurs", "user", 1)>>,
      <<Entry("kak dela", "user", 0), Entry("kurs", "user", 1)>> }

Dates == {"", "9:45", "10:15", "10:05"}

\* the caches of n items, item k being the k-th inserted
RECURSIVE CachesOf(_)
CachesOf(n) ==
    IF n = 0 THEN {<<>>}
    ELSE {Append(c, NewsItem("id" \o IntToStr(n), "Novost' " \o IntToStr(n), "_R_B_C", d)) :
            c \in CachesOf(n - 1), d \in Dates}

StoreCaches == UNION {CachesOf(n) : n \in 0..MaxNews}

\* queries given to the search handler: matching nothing, one item, every
\* item (in another case, and the empty query)
Queries == {"xyzzy", "novost' 1", "NOVOST'", ""}

Limits == {PyNone} \cup {PyInt(k) : k \in (0 - MaxLimit)..MaxLimit}
              \cup {PyStr("2"), PyStr("None"), PyStr("mnogo")}

----------------------------------------------------------------------------
(* State *)

Quiet ==
    /\ op = "init" /\ message = "" /\ intent = "none" /\ calls = <<>>
    /\ raisedIn = "none" /\ outcome = "none" /\ response = NoResponse
    /\ limit = PyNone /\ result = <<>>
    /\ fetches = <<>> /\ displayed = ""
    /\ analysis_cache = {} /\ analysed = {}

\* a dialog manager as constructed, over a store with or without news
Init ==
    /\ context_size \in 0..MaxContextSize
    /\ context = <<>>
    /\ now = 0
    /\ appended = <<>>
    /\ news_cache \in Fetches
    /\ ui = "off"
    /\ Quiet

----------------------------------------------------------------------------
(* Operations of the dialog manager *)

AddToContext(msg, role) ==
    /\ now < MaxClock
    /\ context' = add_to_context(context, context_size, msg, role, now)
    /\ appended' = Append(appended, Entry(msg, role, now))
    /\ now' = now + 1
    /\ op' = "add_to_context"
    /\ message' = msg
    /\ intent' = "none" /\ calls' = <<>> /\ raisedIn' = "none"
    /\ outcome' = "returned" /\ response' = NoResponse
    /\ fetches' = <<>>
    /\ UNCHANGED <<context_size, news_cache, limit, result>>
    /\ UNCHANGED uiVars
    /\ UNCHANGED analyzerVars

ClearContext ==
    /\ context' = clear_context(context)
    /\ appended' = <<>>
    /\ op' = "clear_context"
    /\ message' = ""
    /\ intent' = "none" /\ calls' = <<>> /\ raisedIn' = "none"
    /\ outcome' = "returned" /\ response' = NoResponse
    /\ fetches' = <<>>
    /\ UNCHANGED <<context_size, now, news_cache, limit, result>>
    /\ UNCHANGED uiVars
    /\ UNCHANGED analyzerVars

\* rolls the user's entry back when the handler raises
context_on_fault_rolls_back(ctx1) == SubSeq(ctx1, 1, Len(ctx1) - 1)

\* the context when an exception leaves process_message: lines 139-142 are
\* skipped and nothing is undone
context_on_fault(ctx1) == ctx1

\* one process_message call, whoever makes it
Process(msg, fault, llm, web) ==
    /\ now < MaxClock
    /\ LET ctx1 == add_to_context(context, context_size, msg, "user", now)
       IN
       \E r \in {process_message(msg, ctx1, news_cache, fault, llm)} :
       LET h == r.handled
           updated == \E i \in 1..Len(h.calls) : h.calls[i].fn = "update_news"
           refresh == update_news(Sources, web)
       IN  /\ intent' = r.intent
           /\ calls' = h.calls
           /\ raisedIn' = h.raisedIn
           /\ news_cache' = IF updated /\ h.raisedIn = "none"
                            THEN cache_write(news_cache, refresh.all_news)
                            ELSE news_cache
           /\ fetches' = IF updated /\ h.raisedIn = "none" THEN refresh.fetches ELSE <<>>
           /\ IF h.raised
              THEN /\ context' = context_on_fault(ctx1)
                   /\ appended' = Append(appended, Entry(msg, "user", now))
                   /\ now' = now + 1
                   /\ outcome' = "raised"
                   /\ response' = NoResponse
              ELSE /\ context' = add_to_context(ctx1, context_size, h.resp.text,
                                                "system", now + 1)
                   /\ appended' = appended \o <<Entry(msg, "user", now),
                                                Entry(h.resp.text, "system", now + 1)>>
                   /\ now' = now + 2
                   /\ outcome' = "returned"
                   /\ response' = h.resp
    /\ op' = "process_message"
    /\ message' = msg
    /\ UNCHANGED <<context_size, limit, result>>
    /\ UNCHANGED analyzerVars

ProcessMessage(msg, fault, llm, web) ==
    /\ Process(msg, fault, llm, web)
    /\ UNCHANGED uiVars

Next ==
    \/ \E e \in DirectEntries : AddToContext(e.content, e.role)
    \/ ClearContext
    \/ \E msg \in Messages, env \in Environments :
          ProcessMessage(msg, env.fault, env.llm, env.web)

Spec == Init /\ [][Next]_vars

----------------------------------------------------------------------------
(* The classifier on its own: every message of IntentMessages in every     *)
(* context of IntentContexts                                               *)

InitIntent ==
    /\ context_size = 5
    /\ context \in IntentContexts
    /\ now = 2
    /\ appended = context
    /\ news_cache = <<>>
    /\ ui = "off"
    /\ Quiet

DetermineIntent(msg) ==
    /\ op = "init"
    /\ op' = "determine_intent"
    /\ message' = msg
    /\ intent' = determine_intent(msg, context)
    /\ outcome' = "returned"
    /\ UNCHANGED <<context_size, context, now, appended, news_cache, calls,
                   raisedIn, response, limit, result, fetches>>
    /\ UNCHANGED uiVars
    /\ UNCHANGED analyzerVars

ExtractSearchQuery(msg) ==
    /\ op = "init"
    /\ op' = "extract_search_query"
    /\ message' = msg
    /\ result' = PyStr(extract_search_query(msg))
    /\ outcome' = "returned"
    /\ UNCHANGED <<context_size, context, now, appended, news_cache, intent, calls,
                   raisedIn, response, limit, fetches>>
    /\ UNCHANGED uiVars
    /\ UNCHANGED analyzerVars

NextIntent ==
    \/ \E msg \in IntentMessages : DetermineIntent(msg)
    \/ \E msg \in QueryMessages : ExtractSearchQuery(msg)

SpecIntent == InitIntent /\ [][NextIntent]_vars

----------------------------------------------------------------------------
(* The news store on its own: every cache of StoreCaches, every limit      *)

InitStore ==
    /\ context_size = 5
    /\ context = <<>>
    /\ now = 0
    /\ appended = <<>>
    /\ news_cache \in StoreCaches
    /\ ui = "off"
    /\ Quiet

GetLatestNews(lim) ==
    /\ op = "init"
    /\ lim.py # "str"
    /\ op' = "get_latest_news"
    /\ limit' = lim
    /\ result' = get_latest_news(news_cache, lim)
    /\ outcome' = "returned"
    /\ UNCHANGED <<context_size, context, now, appended, news_cache, message,
                   intent, calls, raisedIn, response, fetches>>
    /\ UNCHANGED uiVars
    /\ UNCHANGED analyzerVars

HandleLatestNews(lim, fault) ==
    /\ op = "init"
    /\ LET h == handle_latest_news(news_cache, lim, fault)
       IN  /\ response' = h.resp
           /\ calls' = h.calls
           /\ raisedIn' = h.raisedIn
           /\ result' = IF h.resp.data = PyNone THEN <<>> ELSE h.resp.data.v
    /\ op' = "handle_latest_news"
    /\ limit' = lim
    /\ outcome' = "returned"
    /\ UNCHANGED <<context_size, context, now, appended, news_cache, message,
                   intent, fetches>>
    /\ UNCHANGED uiVars
    /\ UNCHANGED analyzerVars

HandleSearchNews(query, fault) ==
    /\ op = "init"
    /\ LET h == handle_search_news(news_cache, query, 5, fault)
       IN  /\ response' = h.resp
           /\ calls' = h.calls
           /\ raisedIn' = h.raisedIn
           /\ outcome' = IF h.raised THEN "raised" ELSE "returned"
    /\ result' = IF fault = "store" THEN <<>> ELSE search_news(news_cache, query, 5)
    /\ op' = "handle_search_news"
    /\ message' = query
    /\ UNCHANGED <<context_size, context, now, appended, news_cache, intent, limit,
                   fetches>>
    /\ UNCHANGED uiVars
    /\ UNCHANGED analyzerVars

NextStore ==
    \/ \E lim \in Limits : GetLatestNews(lim)
    \/ \E lim \in Limits, fault \in {"none", "store"} : HandleLatestNews(lim, fault)
    \/ \E query \in Queries, fault \in {"none", "store"} : HandleSearchNews(query, fault)

SpecStore == InitStore /\ [][NextStore]_vars

----------------------------------------------------------------------------
(* The analyzer on its own: NewsAnalyzer.analyze_news and its cache.  A     *)
(* Python dict is the set of its (key, value) pairs.  In the dialog        *)
(* specifications the analyzer is a collaborator that replies or raises,   *)
(* and its cache stays out of sight.                                       *)

AnalysisDocument == "{\"topic\": \"infl@ci@\", \"sentiment\": \"positive\"}"

\* json.loads on the documents the replies can hold: the value, or a failure
json_loads(s) ==
    IF s = AnalysisDocument
    THEN [raised |-> FALSE, value |-> {<<"topic", "infl@ci@">>, <<"sentiment", "positive">>}]
    ELSE IF s = "{}" THEN [raised |-> FALSE, value |-> {}]
    ELSE [raised |-> TRUE, value |-> {}]

\* str.find and str.rfind of one character, counted from 0, -1 when absent
find(c, s) ==
    LET at == {i \in 1..Len(s) : CharAt(s, i) = c}
    IN  IF at = {} THEN 0 - 1 ELSE (CHOOSE i \in at : \A j \in at : i <= j) - 1

rfind(c, s) ==
    LET at == {i \in 1..Len(s) : CharAt(s, i) = c}
    IN  IF at = {} THEN 0 - 1 ELSE (CHOOSE i \in at : \A j \in at : i >= j) - 1

\* _extract_json: the text from its first "{" to its last "}" parsed, or the
\* whole text parsed; the empty dict when the parsing raises.  parsed tells
\* which of the two happened
extract_json(text) ==
    LET start_idx == find("{", text)
        end_idx == rfind("}", text) + 1
        json_str == IF end_idx <= start_idx THEN "" ELSE SubSeq(text, start_idx + 1, end_idx)
        loaded == IF start_idx # 0 - 1 /\ end_idx # 0 THEN json_loads(json_str)
                  ELSE json_loads(text)
    IN  [value |-> IF loaded.raised THEN {} ELSE loaded.value, parsed |-> ~loaded.raised]

AnalysisStub ==
    { <<"topic", "ne udalos' opredelit'">>, <<"sentiment", "neutral">>,
      <<"key_points", <<"Ne udalos' proanalizirovat' novost'">>>>,
      <<"impact", "Ne udalos' opredelit' vli@nie">> }

\* analyze_news: the cached analysis of the item's id if there is one; else
\* the LLM is called, its reply parsed and stored under the id (when the item
\* has one); the stub, nothing stored, when the LLM call raises
analyze_news(cache, news_item, llm) ==
    LET news_id == news_item.id
        cached == {e \in cache : e.id = news_id}
        reply == extract_json(llm.text)
    IN  IF news_id # "" /\ cached # {}
        THEN [result |-> (CHOOSE e \in cached : TRUE).analysis, cache |-> cache,
              called |-> FALSE, parsed |-> FALSE]
        ELSE IF llm.raises
        THEN [result |-> AnalysisStub, cache |-> cache, called |-> TRUE, parsed |-> FALSE]
        ELSE [result |-> reply.value,
              cache |-> IF news_id # ""
                        THEN {e \in cache : e.id # news_id}
                               \cup {[id |-> news_id, analysis |-> reply.value]}
                        ELSE cache,
              called |-> TRUE, parsed |-> reply.parsed]

\* the items given to analyze_news: two with an id, one without
AnalyzerItems ==
    { NewsItem("n1", "Kurs rubl@ vyros", "_R_B_C", "10:15"),
      NewsItem("n2", "CB sohranil stavku", "_R_B_C", "9:45"),
      NewsItem("", "Infl@ci@ zamedlilas'", "_R_B_C", "11:30") }

\* what the LLM does when called: it raises, or replies with a JSON
\* document among prose, an empty document, prose only, a broken document
LLMOutcomes ==
    { [raises |-> TRUE, text |-> ""] }
    \cup { [raises |-> FALSE, text |-> t] :
             t \in { "Vot analiz: " \o AnalysisDocument \o " Gotovo.", "{}",
                     "Izvinite, ne mogu", "{topic" } }

InitAnalyzer ==
    /\ context_size = 5
    /\ context = <<>>
    /\ now = 0
    /\ appended = <<>>
    /\ news_cache = <<>>
    /\ ui = "off"
    /\ Quiet

AnalyzeNews(news_item, llm) ==
    /\ \E r \in {analyze_news(analysis_cache, news_item, llm)} :
          /\ analysis_cache' = r.cache
          /\ analysed' = IF r.called /\ r.parsed THEN analysed \cup {news_item.id}
                         ELSE analysed
          /\ result' = PyDict(r.result)
          /\ calls' = IF r.called
                      THEN <<Call("chat.completions.create", PyStr(news_item.id))>>
                      ELSE <<>>
          /\ raisedIn' = IF r.called /\ llm.raises THEN "chat.completions.create"
                         ELSE "none"
    /\ op' = "analyze_news"
    /\ message' = news_item.id
    /\ outcome' = "returned"
    /\ UNCHANGED <<context_size, context, now, appended, news_cache, intent, response,
                   limit, fetches>>
    /\ UNCHANGED uiVars

NextAnalyzer == \E news_item \in AnalyzerItems, llm \in LLMOutcomes : AnalyzeNews(news_item, llm)

SpecAnalyzer == InitAnalyzer /\ [][NextAnalyzer]_vars

----------------------------------------------------------------------------
(* The console loop: DialogInterface.run over a dialog manager built as    *)
(* main.py builds it                                                       *)

ExitCommands == {"vyhod", "_e_x_i_t", "_q_u_i_t", "_q"}

CommandErrorText == "Owibka vypolneni@ komandy. Poprobujte snova."

\* what happens at the prompt: a line is typed, or the input is interrupted
\* or closed
Typed(line) == [typed |-> TRUE, line |-> line]

Interrupted == [typed |-> FALSE, line |-> ""]

ConsoleInputs ==
    { Typed(l) : l \in {"novosti", " najdi kurs ", "svodka", "Privet", "", "  ",
                        "vyhod", " Vyhod ", "_E_X_I_T", "_q_u_i_t", "_q", "vyhod!"} }
    \cup {Interrupted}

\* get_user_input: the line trimmed, "vyhod" when the prompt is interrupted
get_user_input(input) == IF input.typed THEN Strip(input.line) ELSE "vyhod"

\* a fault of process_message ends the loop
after_message_fault_ends(raised, text) ==
    [ui |-> IF raised THEN "stopped" ELSE "running",
     displayed |-> IF raised THEN displayed ELSE text]

\* the loop body after process_message: the Response text is shown, or the
\* exception is caught and the error text shown; the loop goes on either way
after_message(raised, text) ==
    [ui |-> "running", displayed |-> IF raised THEN CommandErrorText ELSE text]

InitUI ==
    /\ context_size = 5
    /\ context = <<>>
    /\ now = 0
    /\ appended = <<>>
    /\ news_cache \in Fetches
    /\ ui = "off"
    /\ Quiet

\* run up to the loop: the greeting is shown
Run ==
    /\ ui = "off"
    /\ ui' = "running"
    /\ displayed' = handle_greeting.resp.text
    /\ op' = "run"
    /\ UNCHANGED <<context_size, context, now, appended, news_cache, message, intent,
                   calls, raisedIn, outcome, response, limit, result, fetches>>
    /\ UNCHANGED analyzerVars

\* one turn of the loop
LoopBody(input, fault, llm, web) ==
    /\ ui = "running"
    /\ LET user_input == get_user_input(input)
       IN  IF Lower(Strip(user_input)) \in ExitCommands
           THEN /\ ui' = "stopped"
                /\ op' = "exit"
                /\ message' = user_input
                /\ UNCHANGED <<context_size, context, now, appended, news_cache, intent,
                               calls, raisedIn, outcome, response, limit, result,
                               fetches, displayed>>
                /\ UNCHANGED analyzerVars
           ELSE IF Strip(user_input) = ""
           THEN /\ op' = "skip"
                /\ message' = user_input
                /\ UNCHANGED <<context_size, context, now, appended, news_cache, intent,
                               calls, raisedIn, outcome, response, limit, result,
                               fetches, ui, displayed>>
                /\ UNCHANGED analyzerVars
           ELSE /\ Process(user_input, fault, llm, web)
                /\ \E after \in {after_message(outcome' = "raised",
                                                IF outcome' = "raised" THEN "" ELSE response'.text)} :
                      ui' = after.ui /\ displayed' = after.displayed

NextUI ==
    \/ Run
    \/ \E input \in ConsoleInputs, env \in Environments :
          LoopBody(input, env.fault, env.llm, env.web)

SpecUI == InitUI /\ [][NextUI]_vars

----------------------------------------------------------------------------
(* Properties *)

ProcessReturned == op = "process_message" /\ outcome = "returned"

HasType(resp, t) == "type" \in DOMAIN resp /\ resp.type = t

Made(fn) == \E i \in 1..Len(calls) : calls[i].fn = fn

\* C1: whenever a collaborator call made while a message is handled raises,
\* process_message still returns, and the Response it returns has type "error"
C1_NoFailureEscapes ==
    (op = "process_message" /\ raisedIn # "none")
        => (outcome = "returned" /\ HasType(response, "error"))

\* C2: the context never holds more than context_size entries
C2_ContextBound == Len(context) <= context_size

\* C3: the context is the last min(n, context_size) of the n entries appended
\* since the last clear, in the order they were appended and unaltered
C3_Retention ==
    LET n == Len(appended)
        kept == Min(n, context_size)
    IN  context = SubSeq(appended, n - kept + 1, n)

\* C4: process_message never returns a Response of type "unknown"
C4_UnknownIsDead == ProcessReturned => ~HasType(response, "unknown")

\* the rules of the classifier, by number, on a lower-cased message
HasDigitToken(m) ==
    \E i \in 1..Len(m) :
        /\ IsDigitChar(CharAt(m, i))
        /\ i = 1 \/ IsSpace(CharAt(m, i - 1))
        /\ \E j \in i..Len(m) :
              /\ j = Len(m) \/ IsSpace(CharAt(m, j + 1))
              /\ \A k \in i..j : IsDigitChar(CharAt(m, k))

RuleHolds(k, m) ==
    CASE k = 1 -> Contains("vse novosti", m)
      [] k = 2 -> \E w \in {"pomox'", "pomogi", "qto ty umeew'", "komandy"} : Contains(w, m)
      [] k = 3 -> \E w \in {"privet", "zdravstvuj", "dobryj den'", "zdravstvujte"} : Contains(w, m)
      [] k = 4 -> \E w \in {"najdi", "poisk", "iskat'"} : Contains(w, m)
      [] k = 5 -> \E w \in {"analiz", "proanaliziruj", "analizirovat'"} : Contains(w, m)
      [] k = 6 -> \E w \in {"svodka", "rez~me", "itogi", "summa"} : Contains(w, m)
      [] k = 7 -> (Contains("novosti", m) \/ Contains("poslednie", m)) /\ HasDigitToken(m)
      [] k = 8 -> Contains("novosti", m) \/ Contains("poslednie", m)

RuleIntent == <<"get_all_news", "help", "greeting", "search_news", "analyze_news",
                "get_summary", "get_n_news", "get_latest_news">>

RulesHolding(msg) == {k \in 1..8 : RuleHolds(k, Lower(msg))}

\* C5: the classifier returns the intent of the lowest-numbered rule that
\* holds on the lower-cased message, and get_latest_news when no rule holds
C5_ClassifierPriority ==
    op = "determine_intent" =>
        LET holding == RulesHolding(message)
        IN  intent = IF holding = {} THEN "get_latest_news"
                     ELSE RuleIntent[CHOOSE k \in holding : \A j \in holding : k <= j]

\* a message on which a greeting rule and a later news rule both hold was
\* classified as a greeting
C5_Witness ==
    /\ op = "determine_intent"
    /\ {3, 8} \subseteq RulesHolding(message)
    /\ intent = "greeting"

\* C6: the refresh is called exactly when the trimmed, lower-cased message is
\* one of the update commands; the classifier is consulted exactly when it is not
C6_UpdateExactMatch ==
    op = "process_message" =>
        /\ Made("update_news") <=>
              (\E k \in 1..Len(UpdateCommands) : UpdateCommands[k] = Strip(Lower(message)))
        /\ Made("update_news") <=> intent = "none"

\* C7: a message containing "vse novosti" is answered with the full list:
\* type latest_news and every cached item as data, or the guidance when the
\* store is empty
C7_AllNews ==
    (ProcessReturned /\ Contains("vse novosti", Lower(message)) /\ raisedIn = "none") =>
        /\ HasType(response, "latest_news")
        /\ IF news_cache = <<>>
           THEN response.text = NoNewsText /\ response.data = PyNone
           ELSE /\ response.data.py = "list"
                /\ Len(response.data.v) = Len(news_cache)
                /\ \A i \in 1..Len(news_cache) :
                      \E j \in 1..Len(response.data.v) : response.data.v[j] = news_cache[i]

\* C8: get_latest_news(0) is empty whatever the cache holds, and the handler
\* called with limit 0 returns the "no news" guidance
C8_ZeroLimitEmpty ==
    /\ (op = "get_latest_news" /\ limit = PyInt(0)) => result = <<>>
    /\ (op = "handle_latest_news" /\ limit = PyInt(0) /\ raisedIn = "none") =>
          response = [text |-> NoNewsText, data |-> PyNone, type |-> "latest_news"]

\* C9: for a negative limit get_latest_news returns nothing or every cached
\* item, never a proper non-empty part of the cache
C9_NegativeLimitPolicy ==
    (op = "get_latest_news" /\ limit.py = "int" /\ limit.v < 0) =>
        (result = <<>> \/ Len(result) = Len(news_cache))

\* C10: for a positive limit get_latest_news returns min(limit, cached)
\* distinct cached items, by date string descending, none of them older
\* than a cached item it left out
C10_SortAndLimit ==
    (op = "get_latest_news" /\ limit.py = "int" /\ limit.v > 0) =>
        LET returned == {result[i] : i \in 1..Len(result)}
            cached == {news_cache[i] : i \in 1..Len(news_cache)}
        IN  /\ Len(result) = Min(limit.v, Len(news_cache))
            /\ Cardinality(returned) = Len(result)
            /\ returned \subseteq cached
            /\ \A i \in 1..Len(result) : \A j \in (i + 1)..Len(result) :
                  ~StrLess(result[i].date, result[j].date)
            /\ \A r \in returned : \A c \in cached \ returned : ~StrLess(r.date, c.date)

\* a limit below the cache size, on a cache whose insertion order is not the
\* date order and whose dates order differently as strings and as times
C10_Witness ==
    /\ op = "get_latest_news"
    /\ limit.py = "int" /\ limit.v > 0 /\ limit.v < Len(news_cache)
    /\ result # SubSeq(news_cache, 1, limit.v)
    /\ result[1].date = "9:45"
    /\ \E i \in 1..Len(news_cache) : news_cache[i].date = "10:15"

ResponseTypes == {"latest_news", "search_news", "analyze_news", "get_summary",
                  "help", "greeting", "unknown", "error"}

\* C11: every Response process_message returns carries text, data and type,
\* with type one of the eight response types
C11_ResponseShape ==
    ProcessReturned =>
        /\ DOMAIN response = {"text", "data", "type"}
        /\ response.type \in ResponseTypes

SuccessText == "Novosti uspewno obnovleny!"

RefreshFailed ==
    /\ fetches # <<>>
    /\ \A i \in 1..Len(fetches) : ~fetches[i].ok

\* C12: when the update command is processed and every source fetch fails,
\* the Response text is the error text with the failure reason, never the
\* success text
C12_UpdateFailureReported ==
    (ProcessReturned /\ Made("update_news") /\ RefreshFailed) =>
        /\ response.text # SuccessText
        /\ Contains("Proizowla owibka pri obnovlenii novostej: ", response.text)

\* C17: one process_message call queries the store for the latest news at
\* most once
C17_OneHandlerPerMessage ==
    op = "process_message" =>
        Cardinality({i \in 1..Len(calls) : calls[i].fn = "get_latest_news"}) <= 1

\* the message is "novosti N" with N a decimal-digit token, N >= 1
IsNumericRequest(msg) ==
    LET words == Split(Lower(msg))
    IN  /\ Len(words) = 2
        /\ words[1] = "novosti"
        /\ IsDigit(words[2])
        /\ DecimalValue(words[2], 0) >= 1

\* C20: "novosti N" with N >= 1 is answered with type latest_news and the
\* min(N, cached) most recent items
C20_NumericRequest ==
    (ProcessReturned /\ IsNumericRequest(message) /\ raisedIn = "none"
       /\ news_cache # <<>>) =>
        /\ HasType(response, "latest_news")
        /\ response.data = PyList(get_latest_news(news_cache,
                                     PyInt(DecimalValue(Split(Lower(message))[2], 0))))

\* C13: the extracted query is what follows the first occurrence of the
\* first listed prefix that occurs in the lower-cased message, trimmed, and
\* the whole lower-cased message when no prefix occurs
C13_ExtractSearchQuery ==
    op = "extract_search_query" =>
        LET m == Lower(message)
            occurring == {k \in 1..Len(SearchPrefixes) : Contains(SearchPrefixes[k], m)}
        IN  IF occurring = {} THEN result = PyStr(m)
            ELSE \E k \in occurring :
                   /\ \A j \in occurring : k <= j
                   /\ \E i \in 1..(Len(m) - Len(SearchPrefixes[k]) + 1) :
                        LET after == i + Len(SearchPrefixes[k])
                        IN  /\ SubSeq(m, i, after - 1) = SearchPrefixes[k]
                            /\ ~Contains(SearchPrefixes[k], SubSeq(m, 1, after - 2))
                            /\ result = PyStr(Strip(SubSeq(m, after, Len(m))))

\* a message where a later-listed prefix comes first: the query follows the
\* earlier-listed one
C13_Witness ==
    /\ op = "extract_search_query"
    /\ message = "Poisk najdi  infl@ci@ "
    /\ result = PyStr("infl@ci@")

\* C14: when the search finds nothing, the search handler returns type
\* search_news, no data, and a text that contains the query as given
C14_EmptySearchResult ==
    (op = "handle_search_news" /\ outcome = "returned" /\ result = <<>>) =>
        /\ DOMAIN response = {"text", "data", "type"}
        /\ response.type = "search_news"
        /\ response.data = PyNone
        /\ Contains(message, response.text)

\* a query that matches none of the items of a non-empty cache
C14_Witness ==
    /\ op = "handle_search_news"
    /\ outcome = "returned"
    /\ message = "xyzzy"
    /\ Len(news_cache) = 2
    /\ result = <<>>
    /\ response.data = PyNone

\* where the lines of a text start
LineStarts(text) ==
    {1} \cup {i + 1 : i \in {j \in 1..Len(text) : CharAt(text, j) = "\n"}}

\* the line of a text that starts at position s
LineAt(text, s) ==
    LET ends == {j \in s..Len(text) : CharAt(text, j) = "\n"}
    IN  IF ends = {} THEN SubSeq(text, s, Len(text))
        ELSE SubSeq(text, s, (CHOOSE j \in ends : \A k \in ends : j <= k) - 1)

\* the line is a numbered entry: digits, a full stop, a blank, the rest
IsNumberedEntry(line) ==
    \E d \in 1..(Len(line) - 2) :
        IsDigit(SubSeq(line, 1, d)) /\ SubSeq(line, d + 1, d + 2) = ". "

\* C15: when the store returns n >= 1 items to the latest-news handler, the
\* Response has type latest_news, its data is those n items in that order,
\* and its text holds exactly n numbered entries, the k-th numbered k and
\* titled as the k-th item
C15_ListingMatchesData ==
    (op = "handle_latest_news" /\ raisedIn = "none"
       /\ get_latest_news(news_cache, calls[1].arg) # <<>>) =>
        LET items == get_latest_news(news_cache, calls[1].arg)
            entries == {s \in LineStarts(response.text) :
                          IsNumberedEntry(LineAt(response.text, s))}
        IN  /\ response.type = "latest_news"
            /\ response.data = PyList(items)
            /\ Cardinality(entries) = Len(items)
            /\ \A k \in 1..Len(items) :
                  \E s \in entries :
                     /\ Cardinality({e \in entries : e < s}) = k - 1
                     /\ LineAt(response.text, s) = IntToStr(k) \o ". " \o items[k].title

\* three items returned in an order that is not the cache's
C15_Witness ==
    /\ op = "handle_latest_news"
    /\ raisedIn = "none"
    /\ response.type = "latest_news"
    /\ response.data.py = "list"
    /\ Len(response.data.v) = 3
    /\ response.data.v # news_cache

\* C16: after every process_message call that returns, the newest context
\* entry is the system entry holding the Response text and, when the context
\* holds two entries or more, the entry before it is the user entry holding
\* the message, added earlier
C16_ContextProtocol ==
    ProcessReturned =>
        /\ context # <<>>
        /\ context[Len(context)].role = "system"
        /\ context[Len(context)].content = response.text
        /\ context_size >= 2 =>
              /\ Len(context) >= 2
              /\ context[Len(context) - 1].role = "user"
              /\ context[Len(context) - 1].content = message
              /\ context[Len(context) - 1].timestamp < context[Len(context)].timestamp

\* a greeting answered in a context of size two that was full before it
C16_Witness ==
    /\ ProcessReturned
    /\ context_size = 2
    /\ Len(appended) > 2
    /\ message = "privet"
    /\ context = <<Entry("privet", "user", now - 2), Entry(GreetingText, "system", now - 1)>>

\* C19: clear_context leaves the context empty and the context size and the
\* store untouched, and a second clear_context changes nothing more
C19_ClearContextIdempotent ==
    [][op' = "clear_context" =>
          /\ context' = <<>>
          /\ context_size' = context_size
          /\ news_cache' = news_cache
          /\ now' = now
          /\ op = "clear_context" => context' = context]_vars

\* the context cleared after entries were put into it
C19_Witness ==
    /\ op = "clear_context"
    /\ context = <<>>
    /\ now >= 2
    /\ context_size >= 1

\* C18: a process_message call that raises leaves the loop running with the
\* error message shown, and the loop stops only on a step that read an exit
\* command
C18_LoopSurvivesFaults ==
    [][/\ (op' = "process_message" /\ outcome' = "raised") =>
             (ui' = "running" /\ displayed' = CommandErrorText)
       /\ (ui = "running" /\ ui' # "running") =>
             (op' = "exit" /\ Lower(Strip(message')) \in ExitCommands)]_vars

\* a message handled after an earlier one raised out of process_message
C18_Witness ==
    /\ ui = "running"
    /\ op = "process_message"
    /\ outcome = "returned"
    /\ displayed = response.text
    /\ Len(context) = 3
    /\ context[1].role = "user" /\ context[2].role = "user"

\* C21: a refresh runs a site parser for every configured source: with the
\* default sources, _parse_rbc for the first and _parse_ria for the second,
\* none skipped
C21_SourceDispatch ==
    (op = "process_message" /\ Made("update_news") /\ raisedIn = "none") =>
        /\ Len(fetches) = Len(Sources)
        /\ \A i \in 1..Len(fetches) : fetches[i].source = Sources[i].name
        /\ fetches[1].parser = "_parse_rbc"
        /\ fetches[2].parser = "_parse_ria"

\* C24: an id is in the analysis cache only if an LLM call for it succeeded
\* and its reply was parsed as JSON
C24_CacheOnlySuccessful ==
    \A e \in analysis_cache : e.id \in analysed

\* C22: the intent _determine_intent returns for a message is the one it
\* returns for that message in every other context
C22_ContextIndependent ==
    op = "determine_intent" =>
        \A ctx \in IntentContexts : determine_intent(message, ctx) = intent

\* a message no rule knows, classified in a context whose previous entry
\* mentions news, while another context's previous entry does not
C22_Witness ==
    /\ op = "determine_intent"
    /\ message = "kurs"
    /\ PrevMentionsNews(context)
    /\ intent = "get_latest_news"
    /\ \E ctx \in IntentContexts : Len(ctx) > 1 /\ ~PrevMentionsNews(ctx)

\* C23: when a handler raises inside process_message, the user's message
\* stays in the context as its newest entry, no system entry is appended for
\* it, and the context size and the entries retained before it are unchanged
C23_NoRollbackOnFault ==
    [][(op' = "process_message" /\ outcome' = "raised") =>
          /\ context' # <<>>
          /\ context'[Len(context')] = Entry(message', "user", now)
          /\ \E k \in 0..Len(context) :
                SubSeq(context', 1, Len(context') - 1) = SubSeq(context, k + 1, Len(context))
          /\ appended' = Append(appended, Entry(message', "user", now))
          /\ context_size' = context_size
          /\ news_cache' = news_cache]_vars

\* a search that raised after an exchange that filled a context of size two
C23_Witness ==
    /\ op = "process_message"
    /\ outcome = "raised"
    /\ raisedIn = "search_news"
    /\ context_size = 2
    /\ Len(context) = 2
    /\ context[1].role = "system"
    /\ context[2] = Entry(message, "user", now - 1)

RECURSIVE FetchedUpTo(_)
\* the items the first n parsers of the refresh returned, in fetch order
FetchedUpTo(n) == IF n = 0 THEN <<>> ELSE FetchedUpTo(n - 1) \o fetches[n].items

\* C25: after a refresh that reaches the cache write the cache holds, for
\* every id fetched by that refresh and for no other id, the last item
\* fetched with that id; it is empty when every fetch failed
C25_CacheReplaced ==
    (op = "process_message" /\ Made("update_news") /\ raisedIn = "none") =>
        LET fetched == FetchedUpTo(Len(fetches))
        IN  /\ \A i \in 1..Len(news_cache) :
                  \E j \in 1..Len(fetched) :
                     /\ fetched[j] = news_cache[i]
                     /\ \A k \in (j + 1)..Len(fetched) : fetched[k].id # news_cache[i].id
            /\ \A j \in 1..Len(fetched) :
                  \E i \in 1..Len(news_cache) : news_cache[i].id = fetched[j].id
            /\ \A i \in 1..Len(news_cache) : \A j \in 1..Len(news_cache) :
                  news_cache[i].id = news_cache[j].id => i = j
            /\ RefreshFailed => news_cache = <<>>

\* a refresh that fetched an id twice: the cache holds the later item
C25_Witness ==
    /\ op = "process_message"
    /\ Made("update_news")
    /\ raisedIn = "none"
    /\ Len(FetchedUpTo(Len(fetches))) = 3
    /\ Len(news_cache) = 2
    /\ \E i \in 1..2 : news_cache[i].title = "Infl@ci@ uskorilas'"

=============================================================================
